---- MODULE Spec2Model ----
(***************************************************************************)
(* Model of the two compression drivers of the Huffman-Encoding            *)
(* repository: HuffmanCompress.cpp (static Huffman coding) and             *)
(* AdaptiveHuffmanCompress.cpp (adaptive Huffman coding).                  *)
(*                                                                         *)
(* The drivers' main() functions are translated statement by statement.    *)
(* The classes they use (FrequencyTable, CodeTree, CanonicalCode,          *)
(* BitOutputStream, HuffmanEncoder) and the mirror decoders                *)
(* (HuffmanDecompress, AdaptiveHuffmanDecompress) are not among the source *)
(* files; they are modelled from sections 4.1-4.7 of the specification.    *)
(*                                                                         *)
(* The literal constants of the drivers are scaled down so that the state  *)
(* space is finite and small; every scaled constant names the literal it   *)
(* stands for.  The relations between the literals are kept: the end       *)
(* marker is the symbol after the last byte value, the alphabet has one    *)
(* symbol more than there are byte values, the length limit of the static  *)
(* header equals the depth of the deepest possible code tree               *)
(* (SymbolLimit - 1, as 256 = 257 - 1), the reset period is a power of two *)
(* and the loop bound numberOfBytes is larger than the reset period.       *)
(***************************************************************************)
EXTENDS Integers, Sequences, FiniteSets, TLC

\* Number of values of an unsigned char: the literals 255 / 256 of the drivers.
ByteLimit == 3

\* int numberOfBytes = 143666240: the hard-coded bound of every per-byte loop.
numberOfBytes == 6

\* The literal 262144: period of the code tree rebuild / frequency reset.
ResetPeriod == 2

\* The header field width: for (int j = 7; j >= 0; j--), i.e. 8 bits.
LenBits == 2

\* The literal 256 of "if (val >= 256) throw std::domain_error".
LengthLimit == 3

\* Bits per byte of the bit output stream.
ByteBits == 8

\* The input file may be this many bytes longer than numberOfBytes.
MaxExtra == 1

\* argc ranges over 1..MaxArgc.
MaxArgc == 4

\* The page size of the memory mapping, scaled as numberOfBytes is: the loop
\* bound lies inside a page, not on a page boundary.
PageSize == 4

Byte == 0 .. (ByteLimit - 1)

\* The symbol 256 written by enc.write(256) and counted by freqs.increment(256).
EndMarker == ByteLimit

\* The literal 257 of initFreqs(257, 1) and std::vector<uint32_t>(257, 0).
SymbolLimit == ByteLimit + 1

Symbols == 0 .. (SymbolLimit - 1)

\* EOF of <stdio.h>.
EOF == -1

Min(a, b) == IF a <= b THEN a ELSE b

RECURSIVE Pow2(_)
Pow2(n) == IF n = 0 THEN 1 ELSE 2 * Pow2(n - 1)

RECURSIVE SeqsUpTo(_, _)
\* All sequences over S of length at most n.
SeqsUpTo(S, n) ==
    IF n = 0 THEN {<<>>}
    ELSE LET shorter == SeqsUpTo(S, n - 1)
         IN  shorter \cup {Append(s, x) : s \in {t \in shorter : Len(t) = n - 1}, x \in S}

RECURSIVE Occurrences(_, _)
\* Number of positions of sequence s holding x.
Occurrences(s, x) ==
    IF s = <<>> THEN 0
    ELSE (IF s[1] = x THEN 1 ELSE 0) + Occurrences(Tail(s), x)

----------------------------------------------------------------------------
(* FrequencyTable (specification 4.1) *)

\* FrequencyTable(std::vector<uint32_t>(257, v))
FrequencyTable(v) == [s \in Symbols |-> v]

\* The initial table of the adaptive driver with every frequency 0.
initFreqs_Zero == FrequencyTable(0)

\* const std::vector<uint32_t> initFreqs(257, 1)
initFreqs == FrequencyTable(1)

\* FrequencyTable::increment(symbol)
increment(f, symbol) == [f EXCEPT ![symbol] = @ + 1]

\* The symbols with a leaf in a tree built from f.
Active(f) == {s \in Symbols : f[s] > 0}

----------------------------------------------------------------------------
(* CodeTree construction (specification 4.2).  A code tree is represented  *)
(* by the set of its leaves, each a pair <<symbol, path>>, the path being  *)
(* the sequence of bits from the root (left = 0, right = 1); a full binary *)
(* tree is determined by the paths of its leaves.                          *)

Leaf(s) == {<<s, <<>>>>}

InternalNode(left, right) ==
    {<<l[1], <<0>> \o l[2]>> : l \in left} \cup {<<l[1], <<1>> \o l[2]>> : l \in right}

\* A node of the priority forest, tagged with (frequency, lowest symbol).
NodeWithFrequency(node, lowestSymbol, frequency) ==
    [node |-> node, lowestSymbol |-> lowestSymbol, frequency |-> frequency]

\* The order of the forest with ties broken by the larger minimum contained
\* symbol.
LowerNode_LargerFirst(x, y) ==
    \/ x.frequency < y.frequency
    \/ x.frequency = y.frequency /\ x.lowestSymbol > y.lowestSymbol

\* The order of the forest: lower frequency first, ties broken by the
\* smaller minimum contained symbol.
LowerNode(x, y) ==
    \/ x.frequency < y.frequency
    \/ x.frequency = y.frequency /\ x.lowestSymbol < y.lowestSymbol

popQueue(Q) == CHOOSE x \in Q : \A y \in Q \ {x} : LowerNode(x, y)

RECURSIVE MergeNodes(_)
\* Repeatedly merge the two lowest nodes until one node, the root, remains.
MergeNodes(Q) ==
    IF Cardinality(Q) <= 1 THEN Q
    ELSE LET x == popQueue(Q)
             y == popQueue(Q \ {x})
             z == NodeWithFrequency(InternalNode(x.node, y.node),
                                    Min(x.lowestSymbol, y.lowestSymbol),
                                    x.frequency + y.frequency)
         IN  MergeNodes((Q \ {x, y}) \cup {z})

\* FrequencyTable::buildCodeTree(): one leaf per symbol of nonzero frequency.
\* The empty set stands for the failure on an empty alphabet.
buildCodeTree(f) ==
    LET leaves == {NodeWithFrequency(Leaf(s), s, f[s]) : s \in Active(f)}
        root == MergeNodes(leaves)
    IN  IF root = {} THEN {} ELSE (CHOOSE r \in root : TRUE).node

\* The symbols with a leaf in the tree.
LeafSymbols(t) == {l[1] : l \in t}

\* CodeTree::getCode(symbol): the path of the symbol's leaf.
getCode(t, symbol) == (CHOOSE l \in t : l[1] = symbol)[2]

----------------------------------------------------------------------------
(* CanonicalCode (specification 4.3): one code length per symbol, 0 for a  *)
(* symbol without a leaf.                                                   *)

\* CanonicalCode with the height of the tree taken for the depth of every leaf.
CanonicalCode_Height(t, symbolLimit) ==
    [s \in 0 .. (symbolLimit - 1) |->
        IF s \in LeafSymbols(t)
        THEN CHOOSE h \in {Len(l[2]) : l \in t} : \A l \in t : Len(l[2]) <= h
        ELSE 0]

\* CanonicalCode(tree, symbolLimit): the depth of every leaf.
CanonicalCode(t, symbolLimit) ==
    [s \in 0 .. (symbolLimit - 1) |->
        IF s \in LeafSymbols(t) THEN Len(getCode(t, s)) ELSE 0]

\* CanonicalCode::getSymbolLimit()
getSymbolLimit(cc) == Cardinality(DOMAIN cc)

\* CanonicalCode::getCodeLength(symbol)
getCodeLength(cc, symbol) == cc[symbol]

\* The symbols that have a code.
Coded(cc) == {s \in DOMAIN cc : cc[s] > 0}

\* The canonical order: by length, then by symbol index.
CanonBefore(cc, a, b) == cc[a] < cc[b] \/ (cc[a] = cc[b] /\ a < b)

RECURSIVE CanonValue(_, _)
\* The codeword of s as a number: the first codeword is 0, every next one is
\* its predecessor plus one, shifted left by the increase of the length.
CanonValue(cc, s) ==
    LET before == {t \in Coded(cc) : CanonBefore(cc, t, s)}
    IN  IF before = {} THEN 0
        ELSE LET p == CHOOSE t \in before :
                          \A u \in before \ {t} : CanonBefore(cc, u, t)
             IN  (CanonValue(cc, p) + 1) * Pow2(cc[s] - cc[p])

RECURSIVE ToBits(_, _)
\* The n low bits of v, most significant first.
ToBits(v, n) ==
    IF n = 0 THEN <<>> ELSE Append(ToBits(v \div 2, n - 1), v % 2)

RECURSIVE KraftSum(_, _, _)
\* Sum over the symbols of S of 2^(maxLen - length).
KraftSum(cc, S, maxLen) ==
    IF S = {} THEN 0
    ELSE LET s == CHOOSE x \in S : TRUE
         IN  Pow2(maxLen - cc[s]) + KraftSum(cc, S \ {s}, maxLen)

\* The lengths describe a complete prefix code.
CanonComplete(cc) ==
    /\ Coded(cc) # {}
    /\ LET maxLen == CHOOSE m \in {cc[s] : s \in Coded(cc)} :
                         \A s \in Coded(cc) : cc[s] <= m
       IN  KraftSum(cc, Coded(cc), maxLen) = Pow2(maxLen)

\* CanonicalCode::toCodeTree(): the tree of the canonical codewords.  The
\* empty set stands for the failure on lengths that describe no complete code.
toCodeTree(cc) ==
    IF CanonComplete(cc)
    THEN {<<s, ToBits(CanonValue(cc, s), cc[s])>> : s \in Coded(cc)}
    ELSE {}

----------------------------------------------------------------------------
(* BitOutputStream (specification 4.4).  v1 is the byte vector the drivers *)
(* hand to fwrite; the stream appends every completed byte to it.          *)

BitOutputStream == [v1 |-> <<>>, currentByte |-> 0, numBitsFilled |-> 0]

\* BitOutputStream::write(b): most significant bit first.
bitWrite(bo, b) ==
    LET cur == bo.currentByte * 2 + b
    IN  IF bo.numBitsFilled + 1 = ByteBits
        THEN [v1 |-> Append(bo.v1, cur), currentByte |-> 0, numBitsFilled |-> 0]
        ELSE [v1 |-> bo.v1, currentByte |-> cur,
              numBitsFilled |-> bo.numBitsFilled + 1]

RECURSIVE bitWriteAll(_, _)
\* write() of every bit of a sequence, in order.
bitWriteAll(bo, bits) ==
    IF bits = <<>> THEN bo ELSE bitWriteAll(bitWrite(bo, Head(bits)), Tail(bits))

RECURSIVE bitFinish(_)
\* BitOutputStream::finish(): pad the partial byte with 0 bits.
bitFinish(bo) == IF bo.numBitsFilled = 0 THEN bo ELSE bitFinish(bitWrite(bo, 0))

\* The number of bits written so far.
BitsWritten(bo) == Len(bo.v1) * ByteBits + bo.numBitsFilled

RECURSIVE BytesToBits(_)
\* The bits of a byte sequence, most significant bit of each byte first.
BytesToBits(bytes) ==
    IF bytes = <<>> THEN <<>>
    ELSE ToBits(Head(bytes), ByteBits) \o BytesToBits(Tail(bytes))

\* The bits written so far, in order.
WrittenBits(bo) == BytesToBits(bo.v1) \o ToBits(bo.currentByte, bo.numBitsFilled)

\* BitInputStream::read() at bit position pos (from 0) of a byte sequence;
\* -1 is the end-of-stream signal.
bitRead(bytes, pos) ==
    IF pos >= Len(bytes) * ByteBits THEN -1
    ELSE (bytes[(pos \div ByteBits) + 1]
             \div Pow2(ByteBits - 1 - (pos % ByteBits))) % 2

----------------------------------------------------------------------------
(* HuffmanEncoder / HuffmanDecoder (specification 4.5) *)

\* HuffmanEncoder::write(symbol) can find the symbol's leaf.
canEncode(t, symbol) == symbol \in LeafSymbols(t)

\* HuffmanEncoder::write(symbol): emit the path of the symbol's leaf.
encWrite(bo, t, symbol) == bitWriteAll(bo, getCode(t, symbol))

RECURSIVE decWalk(_, _, _, _)
\* Follow the bits from the root until a leaf is reached.  The result is the
\* leaf's symbol and the position after its last bit; symbol -1 reports a
\* stream that ends, or a path that leaves the tree, before a leaf.
decWalk(t, bytes, pos, path) ==
    IF \E l \in t : l[2] = path
    THEN [symbol |-> (CHOOSE l \in t : l[2] = path)[1], pos |-> pos]
    ELSE LET b == bitRead(bytes, pos)
         IN  IF b = -1 \/ Len(path) >= SymbolLimit
             THEN [symbol |-> -1, pos |-> pos]
             ELSE decWalk(t, bytes, pos + 1, Append(path, b))

\* HuffmanDecoder::read()
decRead(t, bytes, pos) == decWalk(t, bytes, pos, <<>>)

\* Read a big-endian field of n bits at position pos.
readField(bytes, pos, n) ==
    LET RECURSIVE go(_, _)
        go(k, acc) == IF k = n THEN acc
                      ELSE go(k + 1, acc * 2 + bitRead(bytes, pos + k))
    IN  go(0, 0)

RECURSIVE BitAnd(_, _)
\* x & y on unsigned integers.
BitAnd(x, y) ==
    IF x = 0 \/ y = 0 THEN 0
    ELSE (x % 2) * (y % 2) + 2 * BitAnd(x \div 2, y \div 2)

\* isPowerOf2 with the test x > 0 taken for x > 1.
isPowerOf2_FromTwo(x) == x > 1 /\ BitAnd(x, x - 1) = 0

\* static bool isPowerOf2(uint32_t x) { return x > 0 && (x & (x - 1)) == 0; }
isPowerOf2(x) == x > 0 /\ BitAnd(x, x - 1) = 0

----------------------------------------------------------------------------
(* The state of a run of one of the two drivers, followed by a run of the  *)
(* mirror decoder on the file the driver wrote.                             *)

VARIABLES
    prog,       \* the driver that runs: "static" or "adaptive"
    argc,       \* the argument count
    file,       \* the content of the input file
    readable,   \* number of bytes of the mapped region that can be read
    pc,         \* the position in main()
    i,          \* the index of the per-byte loop or of the header loop
    freqs,      \* FrequencyTable freqs
    tree,       \* adaptive: CodeTree tree; static: CodeTree code
    canonCode,  \* static: CanonicalCode canonCode
    count,      \* adaptive: uint32_t count
    bout,       \* BitOutputStream bout, with the byte vector v1
    outFile,    \* the output file: whether it exists, and its bytes
    fileOps,    \* the file operations performed so far
    stderr,     \* the messages printed to std::cerr
    exitCode,   \* how the process ended
    encoded,    \* history: the symbols passed to enc.write, in order
    builds,     \* history: the frequency table of every buildCodeTree() call
    rebuilds,   \* history: the counts at which the loop rebuilt the tree
    resets,     \* history: the counts at which the loop reset the table
    encHist,    \* history: count, table and tree after every loop iteration
    dpc,        \* decoder: position
    dpos,       \* decoder: bit position in the compressed file
    dfreqs,     \* decoder: frequency table
    dtree,      \* decoder: code tree
    dcount,     \* decoder: count
    decoded,    \* decoder: the bytes written
    dRebuilds,  \* decoder history: the counts at which it rebuilt the tree
    dResets,    \* decoder history: the counts at which it reset the table
    run,        \* which run of the driver on this input this is: 1 or 2
    first       \* what the first run did, once the driver is run again

driverVars == <<prog, argc, file, readable, pc, i, freqs, tree, canonCode, count,
                bout, outFile, fileOps, stderr, exitCode>>
histVars == <<encoded, builds, rebuilds, resets, encHist>>
decVars == <<dpc, dpos, dfreqs, dtree, dcount, decoded, dRebuilds, dResets>>
runVars == <<run, first>>
vars == <<driverVars, histVars, decVars, runVars>>

\* The state of the loop as far as the mirror decoder has to follow it.
Snapshot(c, f, t) == [count |-> c, freqs |-> f, tree |-> t]

\* The input files of the runs: every byte sequence up to MaxExtra bytes longer
\* than the loop bound.  A run with a wrong argument count never names its
\* input, so a few files are enough for it.
InputFiles(n) ==
    IF n = 3 THEN SeqsUpTo(Byte, numberOfBytes + MaxExtra)
    ELSE SeqsUpTo(Byte, MaxExtra)

Init ==
    /\ prog \in {"static", "adaptive"}
    /\ argc \in 1 .. MaxArgc
    /\ file \in InputFiles(argc)
    /\ readable = 0
    /\ pc = "start"
    /\ i = 0
    /\ freqs = FrequencyTable(0)
    /\ tree = {}
    /\ canonCode = <<>>
    /\ count = 0
    /\ bout = BitOutputStream
    /\ outFile = [exists |-> FALSE, bytes |-> <<>>]
    /\ fileOps = {}
    /\ stderr = <<>>
    /\ exitCode = "running"
    /\ encoded = <<>>
    /\ builds = <<>>
    /\ rebuilds = {}
    /\ resets = {}
    /\ encHist = <<>>
    /\ dpc = "idle"
    /\ dpos = 0
    /\ dfreqs = FrequencyTable(0)
    /\ dtree = {}
    /\ dcount = 0
    /\ decoded = <<>>
    /\ dRebuilds = {}
    /\ dResets = {}
    /\ run = 1
    /\ first = [bits |-> <<>>, outFile |-> [exists |-> FALSE, bytes |-> <<>>],
                exitCode |-> "running"]

\* The test of the command line taken for argc < 3.
ArgcOk_AtLeast(n) == n >= 3

\* The test of the command line, negated: if (argc != 3).
ArgcOk(n) == n = 3

\* file.open(inputFile, numberOfBytes, 0): the region of numberOfBytes bytes
\* is mapped whatever the size of the file.  Bytes past the end of the file
\* read as 0 up to the end of the file's last page, and every read beyond
\* that page faults.  The result is the number of bytes that can be read.
Mapped(size) ==
    Min(numberOfBytes, ((size + PageSize - 1) \div PageSize) * PageSize)

\* data[k] with the bytes past the end of the file left as an earlier run of
\* the driver found them, instead of reading as 0.
data_Stale(k) == IF k < Len(file) THEN file[k + 1] ELSE (run - 1) % ByteLimit

\* data[k] with data declared char *, not unsigned char *: the upper half of
\* the byte values widens to negative numbers, the last byte value to -1.
data_SignedChar(k) ==
    LET b == IF k < Len(file) THEN file[k + 1] ELSE 0
    IN  IF 2 * b > ByteLimit THEN b - ByteLimit ELSE b

\* data[k], for an index k (from 0) that can be read.
data(k) == IF k < Len(file) THEN file[k + 1] ELSE 0

----------------------------------------------------------------------------
(* AdaptiveHuffmanCompress.cpp, main() *)

\* if (argc != 3) { std::cerr << "Usage: ..."; return EXIT_FAILURE; }
AdaptiveUsage ==
    /\ prog = "adaptive" /\ pc = "start" /\ ~ArgcOk(argc)
    /\ stderr' = Append(stderr, "Usage")
    /\ exitCode' = "EXIT_FAILURE"
    /\ pc' = "exited"
    /\ UNCHANGED <<prog, argc, file, readable, i, freqs, tree, canonCode, count,
                   bout, outFile, fileOps>>
    /\ UNCHANGED <<histVars, decVars, runVars>>

\* std::ifstream in(inputFile); std::ofstream out(outputFile);
\* file.open(inputFile, numberOfBytes, 0); BitOutputStream bout(out);
AdaptiveOpen ==
    /\ prog = "adaptive" /\ pc = "start" /\ ArgcOk(argc)
    /\ fileOps' = fileOps \cup {"ifstream", "ofstream", "mapped_file"}
    /\ outFile' = [exists |-> TRUE, bytes |-> <<>>]
    /\ readable' = Mapped(Len(file))
    /\ bout' = BitOutputStream
    /\ pc' = "init"
    /\ UNCHANGED <<prog, argc, file, i, freqs, tree, canonCode, count, stderr,
                   exitCode>>
    /\ UNCHANGED <<histVars, decVars, runVars>>

\* FrequencyTable freqs(initFreqs); CodeTree tree = freqs.buildCodeTree();
\* enc.codeTree = &tree; uint32_t count = 0;
AdaptiveInit ==
    /\ prog = "adaptive" /\ pc = "init"
    /\ freqs' = initFreqs
    /\ tree' = buildCodeTree(initFreqs)
    /\ builds' = Append(builds, initFreqs)
    /\ count' = 0
    /\ i' = 0
    /\ encHist' = <<Snapshot(0, initFreqs, buildCodeTree(initFreqs))>>
    /\ pc' = "loop"
    /\ UNCHANGED <<prog, argc, file, readable, canonCode, bout, outFile, fileOps,
                   stderr, exitCode>>
    /\ UNCHANGED <<encoded, rebuilds, resets>>
    /\ UNCHANGED <<decVars, runVars>>

\* The rebuild test without its first disjunct.
RebuildDue_PeriodOnly(c) == c % ResetPeriod = 0

\* if ((count < 262144 && isPowerOf2(count)) || count % 262144 == 0)
RebuildDue(c) == (c < ResetPeriod /\ isPowerOf2(c)) \/ c % ResetPeriod = 0

\* The reset test never true.
ResetDue_Never(c) == FALSE

\* if (count % 262144 == 0)
ResetDue(c) == c % ResetPeriod = 0

\* The end of the loop body with the last two statements exchanged: the
\* table is reset before the tree is rebuilt.
AdaptiveUpdate_ResetFirst(c, f, t, symbol) ==
    LET count1 == c + 1
        freqs1 == increment(f, symbol)
        freqs2 == IF ResetDue(count1) THEN initFreqs ELSE freqs1
        tree1 == IF RebuildDue(count1) THEN buildCodeTree(freqs2) ELSE t
    IN  [count |-> count1, freqs |-> freqs2, tree |-> tree1,
         rebuilt |-> RebuildDue(count1), built |-> freqs2,
         reset |-> ResetDue(count1)]

\* The end of the loop body, after enc.write(symbol): count++;
\* freqs.increment(symbol); the rebuild of the tree from the table, if due;
\* then the reset of the table, if due.  "built" is the table handed to
\* buildCodeTree().
AdaptiveUpdate(c, f, t, symbol) ==
    LET count1 == c + 1
        freqs1 == increment(f, symbol)
        tree1 == IF RebuildDue(count1) THEN buildCodeTree(freqs1) ELSE t
        freqs2 == IF ResetDue(count1) THEN initFreqs ELSE freqs1
    IN  [count |-> count1, freqs |-> freqs2, tree |-> tree1,
         rebuilt |-> RebuildDue(count1), built |-> freqs1,
         reset |-> ResetDue(count1)]

\* The tree of enc.write(symbol) with the statement moved to the end of the
\* loop body, after the rebuild.
EncodingTree_Updated(before, after) == after

\* The tree enc.codeTree points to when enc.write(symbol) runs: the statement
\* stands before count++, so it is the tree from before the update of this
\* iteration, not the one after it.
EncodingTree(before, after) == before

\* One iteration of for (int i = 0; i < numberOfBytes; i++): read data[i],
\* encode it, count it, and update the table and the tree.
AdaptiveLoop ==
    /\ prog = "adaptive" /\ pc = "loop" /\ i < numberOfBytes /\ i < readable
    /\ LET symbol == data(i)
           u == AdaptiveUpdate(count, freqs, tree, symbol)
       IN  IF symbol = EOF
           THEN /\ pc' = "eof"
                /\ UNCHANGED <<i, freqs, tree, count, bout, exitCode>>
                /\ UNCHANGED histVars
           ELSE IF symbol < 0 \/ symbol > ByteLimit - 1 \/ ~canEncode(tree, symbol)
           THEN /\ pc' = "exited"
                /\ exitCode' = "terminate"
                /\ UNCHANGED <<i, freqs, tree, count, bout>>
                /\ UNCHANGED histVars
           ELSE /\ bout' = encWrite(bout, EncodingTree(tree, u.tree), symbol)
                /\ encoded' = Append(encoded, symbol)
                /\ count' = u.count
                /\ freqs' = u.freqs
                /\ tree' = u.tree
                /\ builds' = IF u.rebuilt THEN Append(builds, u.built) ELSE builds
                /\ rebuilds' = IF u.rebuilt THEN rebuilds \cup {u.count} ELSE rebuilds
                /\ resets' = IF u.reset THEN resets \cup {u.count} ELSE resets
                /\ encHist' = Append(encHist, Snapshot(u.count, u.freqs, u.tree))
                /\ i' = i + 1
                /\ pc' = "loop"
                /\ UNCHANGED exitCode
    /\ UNCHANGED <<prog, argc, file, readable, canonCode, outFile, fileOps, stderr>>
    /\ UNCHANGED <<decVars, runVars>>

\* data[i] lies past the last page of the file: the read faults.
AdaptiveFault ==
    /\ prog = "adaptive" /\ pc = "loop" /\ i < numberOfBytes /\ i >= readable
    /\ pc' = "exited"
    /\ exitCode' = "SIGBUS"
    /\ UNCHANGED <<prog, argc, file, readable, i, freqs, tree, canonCode, count,
                   bout, outFile, fileOps, stderr>>
    /\ UNCHANGED <<histVars, decVars, runVars>>

\* enc.write(256) made twice.
Trailer_Twice == <<EndMarker, EndMarker>>

\* The symbols the drivers encode after the per-byte loop: enc.write(256);
Trailer == <<EndMarker>>

RECURSIVE encWriteAll(_, _, _)
\* enc.write() of every symbol of a sequence, in order.
encWriteAll(bo, t, symbols) ==
    IF symbols = <<>> THEN bo
    ELSE encWriteAll(encWrite(bo, t, Head(symbols)), t, Tail(symbols))

\* The loop has ended (i = numberOfBytes, or the break): enc.write(256);
AdaptiveEof ==
    /\ prog = "adaptive"
    /\ pc = "eof" \/ (pc = "loop" /\ i >= numberOfBytes)
    /\ IF \A k \in 1 .. Len(Trailer) : canEncode(tree, Trailer[k])
       THEN /\ bout' = encWriteAll(bout, tree, Trailer)
            /\ encoded' = encoded \o Trailer
            /\ pc' = "finish"
            /\ UNCHANGED exitCode
       ELSE /\ pc' = "exited"
            /\ exitCode' = "terminate"
            /\ UNCHANGED <<bout, encoded>>
    /\ UNCHANGED <<prog, argc, file, readable, i, freqs, tree, canonCode, count,
                   outFile, fileOps, stderr>>
    /\ UNCHANGED <<builds, rebuilds, resets, encHist>>
    /\ UNCHANGED <<decVars, runVars>>

\* bout.finish();
AdaptiveFinish ==
    /\ prog = "adaptive" /\ pc = "finish"
    /\ bout' = bitFinish(bout)
    /\ pc' = "fwrite"
    /\ UNCHANGED <<prog, argc, file, readable, i, freqs, tree, canonCode, count,
                   outFile, fileOps, stderr, exitCode>>
    /\ UNCHANGED <<histVars, decVars, runVars>>

\* FILE* out1 = fopen(outputFile, "wb"); fwrite(&v1[0], 1, v1.size(), out1);
\* fclose(out1); return EXIT_SUCCESS;
AdaptiveOutput ==
    /\ prog = "adaptive" /\ pc = "fwrite"
    /\ fileOps' = fileOps \cup {"fopen", "fwrite", "fclose"}
    /\ outFile' = [exists |-> TRUE, bytes |-> bout.v1]
    /\ exitCode' = "EXIT_SUCCESS"
    /\ pc' = "exited"
    /\ UNCHANGED <<prog, argc, file, readable, i, freqs, tree, canonCode, count,
                   bout, stderr>>
    /\ UNCHANGED <<histVars, decVars, runVars>>

NextAdaptive ==
    \/ AdaptiveUsage
    \/ AdaptiveOpen
    \/ AdaptiveInit
    \/ AdaptiveLoop
    \/ AdaptiveFault
    \/ AdaptiveEof
    \/ AdaptiveFinish
    \/ AdaptiveOutput

----------------------------------------------------------------------------
(* HuffmanCompress.cpp, main() *)

\* if (argc != 3) { std::cerr << "Usage: ..."; return EXIT_FAILURE; }
StaticUsage ==
    /\ prog = "static" /\ pc = "start" /\ ~ArgcOk(argc)
    /\ stderr' = Append(stderr, "Usage")
    /\ exitCode' = "EXIT_FAILURE"
    /\ pc' = "exited"
    /\ UNCHANGED <<prog, argc, file, readable, i, freqs, tree, canonCode, count,
                   bout, outFile, fileOps>>
    /\ UNCHANGED <<histVars, decVars, runVars>>

\* file.open(inputFile, numberOfBytes, 0);
\* FrequencyTable freqs(std::vector<uint32_t>(257, 0));
StaticOpen ==
    /\ prog = "static" /\ pc = "start" /\ ArgcOk(argc)
    /\ fileOps' = fileOps \cup {"mapped_file"}
    /\ readable' = Mapped(Len(file))
    /\ freqs' = FrequencyTable(0)
    /\ i' = 0
    /\ pc' = "scan"
    /\ UNCHANGED <<prog, argc, file, tree, canonCode, count, bout, outFile, stderr,
                   exitCode>>
    /\ UNCHANGED <<histVars, decVars, runVars>>

\* One iteration of the first for (int i = 0; i < numberOfBytes; i++):
\* read data[i] and count it.
StaticScan ==
    /\ prog = "static" /\ pc = "scan" /\ i < numberOfBytes /\ i < readable
    /\ LET b == data(i)
       IN  IF b = EOF
           THEN /\ pc' = "build"
                /\ UNCHANGED <<i, freqs, exitCode>>
           ELSE IF b < 0 \/ b > ByteLimit - 1
           THEN /\ pc' = "exited"
                /\ exitCode' = "terminate"
                /\ UNCHANGED <<i, freqs>>
           ELSE /\ freqs' = increment(freqs, b)
                /\ i' = i + 1
                /\ pc' = "scan"
                /\ UNCHANGED exitCode
    /\ UNCHANGED <<prog, argc, file, readable, tree, canonCode, count, bout,
                   outFile, fileOps, stderr>>
    /\ UNCHANGED <<histVars, decVars, runVars>>

\* data[i] lies past the last page of the file: the read faults.
StaticFault ==
    /\ prog = "static" /\ pc = "scan" /\ i < numberOfBytes /\ i >= readable
    /\ pc' = "exited"
    /\ exitCode' = "SIGBUS"
    /\ UNCHANGED <<prog, argc, file, readable, i, freqs, tree, canonCode, count,
                   bout, outFile, fileOps, stderr>>
    /\ UNCHANGED <<histVars, decVars, runVars>>

\* The scan without the increment of the end marker.
ScanEnd_Forgotten(f) == f

\* The end marker incremented twice.
ScanEnd_Twice(f) == increment(increment(f, EndMarker), EndMarker)

\* freqs.increment(256);  // EOF symbol gets a frequency of 1
ScanEnd(f) == increment(f, EndMarker)

RECURSIVE Reverse(_)
Reverse(q) == IF q = <<>> THEN <<>> ELSE Append(Reverse(Tail(q)), Head(q))

\* The header field written least significant bit first (j from 0 to 7).
HeaderField_LittleEndian(val) == Reverse(ToBits(val, LenBits))

\* for (int j = 7; j >= 0; j--) bout.write((val >> j) & 1);
HeaderField(val) == ToBits(val, LenBits)

\* The scan has ended: freqs.increment(256); CodeTree code =
\* freqs.buildCodeTree(); const CanonicalCode canonCode(code,
\* freqs.getSymbolLimit()); code = canonCode.toCodeTree();
StaticBuild ==
    /\ prog = "static"
    /\ pc = "build" \/ (pc = "scan" /\ i >= numberOfBytes)
    /\ LET freqs1 == ScanEnd(freqs)
           code == buildCodeTree(freqs1)
           canon == CanonicalCode(code, SymbolLimit)
       IN  /\ freqs' = freqs1
           /\ builds' = Append(builds, freqs1)
           /\ canonCode' = canon
           /\ tree' = toCodeTree(canon)
           /\ IF code = {} \/ toCodeTree(canon) = {}
              THEN pc' = "exited" /\ exitCode' = "terminate"
              ELSE pc' = "open" /\ UNCHANGED exitCode
    /\ UNCHANGED <<prog, argc, file, readable, i, count, bout, outFile, fileOps,
                   stderr>>
    /\ UNCHANGED <<encoded, rebuilds, resets, encHist>>
    /\ UNCHANGED <<decVars, runVars>>

\* std::ofstream out(outputFile, std::ios::binary); BitOutputStream bout(out);
StaticCreate ==
    /\ prog = "static" /\ pc = "open"
    /\ fileOps' = fileOps \cup {"ofstream"}
    /\ outFile' = [exists |-> TRUE, bytes |-> <<>>]
    /\ bout' = BitOutputStream
    /\ i' = 0
    /\ pc' = "header"
    /\ UNCHANGED <<prog, argc, file, readable, freqs, tree, canonCode, count,
                   stderr, exitCode>>
    /\ UNCHANGED <<histVars, decVars, runVars>>

\* One iteration of for (i = 0; i < canonCode.getSymbolLimit(); i++) with a
\* length below the limit: write it as LenBits bits, big endian.
StaticHeader ==
    /\ prog = "static" /\ pc = "header" /\ i < getSymbolLimit(canonCode)
    /\ LET val == getCodeLength(canonCode, i)
       IN  /\ ~(val >= LengthLimit)
           /\ bout' = bitWriteAll(bout, HeaderField(val))
    /\ i' = i + 1
    /\ UNCHANGED <<prog, argc, file, readable, pc, freqs, tree, canonCode, count,
                   outFile, fileOps, stderr, exitCode>>
    /\ UNCHANGED <<histVars, decVars, runVars>>

\* if (val >= 256) throw std::domain_error(...): no handler catches it.
StaticDomainError ==
    /\ prog = "static" /\ pc = "header" /\ i < getSymbolLimit(canonCode)
    /\ getCodeLength(canonCode, i) >= LengthLimit
    /\ stderr' = Append(stderr, "domain_error")
    /\ exitCode' = "terminate"
    /\ pc' = "exited"
    /\ UNCHANGED <<prog, argc, file, readable, i, freqs, tree, canonCode, count,
                   bout, outFile, fileOps>>
    /\ UNCHANGED <<histVars, decVars, runVars>>

\* HuffmanEncoder enc(bout); enc.codeTree = &code;
StaticEncoder ==
    /\ prog = "static" /\ pc = "header" /\ i >= getSymbolLimit(canonCode)
    /\ i' = 0
    /\ pc' = "encode"
    /\ UNCHANGED <<prog, argc, file, readable, freqs, tree, canonCode, count, bout,
                   outFile, fileOps, stderr, exitCode>>
    /\ UNCHANGED <<histVars, decVars, runVars>>

\* One iteration of the second for (int i = 0; i < numberOfBytes; i++):
\* read data[i] and encode it.  The first loop has read every data[i] that
\* this loop reads.
StaticEncode ==
    /\ prog = "static" /\ pc = "encode" /\ i < numberOfBytes /\ i < readable
    /\ LET symbol == data(i)
       IN  IF symbol = EOF
           THEN /\ pc' = "eof"
                /\ UNCHANGED <<i, bout, encoded, exitCode>>
           ELSE IF symbol < 0 \/ symbol > ByteLimit - 1 \/ ~canEncode(tree, symbol)
           THEN /\ pc' = "exited"
                /\ exitCode' = "terminate"
                /\ UNCHANGED <<i, bout, encoded>>
           ELSE /\ bout' = encWrite(bout, tree, symbol)
                /\ encoded' = Append(encoded, symbol)
                /\ i' = i + 1
                /\ pc' = "encode"
                /\ UNCHANGED exitCode
    /\ UNCHANGED <<prog, argc, file, readable, freqs, tree, canonCode, count,
                   outFile, fileOps, stderr>>
    /\ UNCHANGED <<builds, rebuilds, resets, encHist>>
    /\ UNCHANGED <<decVars, runVars>>

\* The loop has ended: enc.write(256);
StaticEof ==
    /\ prog = "static"
    /\ pc = "eof" \/ (pc = "encode" /\ i >= numberOfBytes)
    /\ IF \A k \in 1 .. Len(Trailer) : canEncode(tree, Trailer[k])
       THEN /\ bout' = encWriteAll(bout, tree, Trailer)
            /\ encoded' = encoded \o Trailer
            /\ pc' = "finish"
            /\ UNCHANGED exitCode
       ELSE /\ pc' = "exited"
            /\ exitCode' = "terminate"
            /\ UNCHANGED <<bout, encoded>>
    /\ UNCHANGED <<prog, argc, file, readable, i, freqs, tree, canonCode, count,
                   outFile, fileOps, stderr>>
    /\ UNCHANGED <<builds, rebuilds, resets, encHist>>
    /\ UNCHANGED <<decVars, runVars>>

\* bout.finish();
StaticFinish ==
    /\ prog = "static" /\ pc = "finish"
    /\ bout' = bitFinish(bout)
    /\ pc' = "fwrite"
    /\ UNCHANGED <<prog, argc, file, readable, i, freqs, tree, canonCode, count,
                   outFile, fileOps, stderr, exitCode>>
    /\ UNCHANGED <<histVars, decVars, runVars>>

\* FILE* out1 = fopen(outputFile, "wb"); fwrite(&v1[0], 1, v1.size(), out1);
\* fclose(out1); return EXIT_SUCCESS;
StaticOutput ==
    /\ prog = "static" /\ pc = "fwrite"
    /\ fileOps' = fileOps \cup {"fopen", "fwrite", "fclose"}
    /\ outFile' = [exists |-> TRUE, bytes |-> bout.v1]
    /\ exitCode' = "EXIT_SUCCESS"
    /\ pc' = "exited"
    /\ UNCHANGED <<prog, argc, file, readable, i, freqs, tree, canonCode, count,
                   bout, stderr>>
    /\ UNCHANGED <<histVars, decVars, runVars>>

NextStatic ==
    \/ StaticUsage
    \/ StaticOpen
    \/ StaticScan
    \/ StaticFault
    \/ StaticBuild
    \/ StaticCreate
    \/ StaticHeader
    \/ StaticDomainError
    \/ StaticEncoder
    \/ StaticEncode
    \/ StaticEof
    \/ StaticFinish
    \/ StaticOutput

----------------------------------------------------------------------------
(* The mirror decoders (specification 4.6 and 4.7), run on the file a      *)
(* driver wrote once the driver has returned EXIT_SUCCESS.                  *)

RECURSIVE readLengths(_, _)
\* The first n header fields of LenBits bits each.
readLengths(bytes, n) ==
    IF n = 0 THEN <<>>
    ELSE Append(readLengths(bytes, n - 1), readField(bytes, (n - 1) * LenBits, LenBits))

\* Read the SymbolLimit code lengths and rebuild the canonical tree.
DecStaticHeader ==
    /\ prog = "static" /\ exitCode = "EXIT_SUCCESS" /\ dpc = "idle"
    /\ LET lens == readLengths(outFile.bytes, SymbolLimit)
           cc == [s \in Symbols |-> lens[s + 1]]
       IN  /\ dtree' = toCodeTree(cc)
           /\ dpc' = IF toCodeTree(cc) = {} THEN "error" ELSE "decode"
    /\ dpos' = SymbolLimit * LenBits
    /\ UNCHANGED <<dfreqs, dcount, decoded, dRebuilds, dResets>>
    /\ UNCHANGED <<driverVars, histVars, runVars>>

\* Decode one symbol; stop at the end marker.
DecStaticSymbol ==
    /\ prog = "static" /\ dpc = "decode"
    /\ LET r == decRead(dtree, outFile.bytes, dpos)
       IN  /\ dpos' = r.pos
           /\ dpc' = IF r.symbol = -1 THEN "error"
                     ELSE IF r.symbol = EndMarker THEN "done" ELSE "decode"
           /\ decoded' = IF r.symbol \in Byte THEN Append(decoded, r.symbol)
                         ELSE decoded
    /\ UNCHANGED <<dfreqs, dtree, dcount, dRebuilds, dResets>>
    /\ UNCHANGED <<driverVars, histVars, runVars>>

\* The decoder's schedule: rebuild at the powers of two below the period and
\* at the multiples of the period, reset at the multiples of the period.
DecRebuildDue(c) ==
    (c < ResetPeriod /\ \E k \in 0 .. 30 : c = Pow2(k)) \/ c % ResetPeriod = 0

DecResetDue(c) == c % ResetPeriod = 0

\* Start from the flat table and its tree.
DecAdaptiveInit ==
    /\ prog = "adaptive" /\ exitCode = "EXIT_SUCCESS" /\ dpc = "idle"
    /\ dfreqs' = initFreqs
    /\ dtree' = buildCodeTree(initFreqs)
    /\ dcount' = 0
    /\ dpos' = 0
    /\ dpc' = "decode"
    /\ UNCHANGED <<decoded, dRebuilds, dResets>>
    /\ UNCHANGED <<driverVars, histVars, runVars>>

\* Decode one symbol; stop at the end marker; otherwise write the byte,
\* count it, and update the table and the tree as the compressor does.
DecAdaptiveSymbol ==
    /\ prog = "adaptive" /\ dpc = "decode"
    /\ LET r == decRead(dtree, outFile.bytes, dpos)
           count1 == dcount + 1
           freqs1 == IF r.symbol \in Byte THEN increment(dfreqs, r.symbol) ELSE dfreqs
       IN  /\ dpos' = r.pos
           /\ IF r.symbol \in Byte
              THEN /\ decoded' = Append(decoded, r.symbol)
                   /\ dcount' = count1
                   /\ dtree' = IF DecRebuildDue(count1) THEN buildCodeTree(freqs1)
                               ELSE dtree
                   /\ dfreqs' = IF DecResetDue(count1) THEN initFreqs ELSE freqs1
                   /\ dRebuilds' = IF DecRebuildDue(count1) THEN dRebuilds \cup {count1}
                                   ELSE dRebuilds
                   /\ dResets' = IF DecResetDue(count1) THEN dResets \cup {count1}
                                 ELSE dResets
                   /\ dpc' = "decode"
              ELSE /\ dpc' = IF r.symbol = EndMarker THEN "done" ELSE "error"
                   /\ UNCHANGED <<decoded, dcount, dtree, dfreqs, dRebuilds, dResets>>
    /\ UNCHANGED <<driverVars, histVars, runVars>>

NextDecoder ==
    \/ DecStaticHeader
    \/ DecStaticSymbol
    \/ DecAdaptiveInit
    \/ DecAdaptiveSymbol

Next == NextStatic \/ NextAdaptive \/ NextDecoder

Spec == Init /\ [][Next]_vars

----------------------------------------------------------------------------
(* Two runs of a driver on the same input: main() is entered a second time  *)
(* with the same arguments and the same input file.  What the first run     *)
(* wrote to the bit stream, left in the output file and ended with is kept  *)
(* for comparison; everything main() declares starts afresh, and the output *)
(* file is still there.                                                      *)

Rerun ==
    /\ run = 1 /\ pc = "exited" /\ dpc = "idle"
    /\ run' = 2
    /\ first' = [bits |-> WrittenBits(bout), outFile |-> outFile,
                 exitCode |-> exitCode]
    /\ pc' = "start"
    /\ readable' = 0
    /\ i' = 0
    /\ freqs' = FrequencyTable(0)
    /\ tree' = {}
    /\ canonCode' = <<>>
    /\ count' = 0
    /\ bout' = BitOutputStream
    /\ fileOps' = {}
    /\ stderr' = <<>>
    /\ exitCode' = "running"
    /\ encoded' = <<>>
    /\ builds' = <<>>
    /\ rebuilds' = {}
    /\ resets' = {}
    /\ encHist' = <<>>
    /\ UNCHANGED <<prog, argc, file, outFile>>
    /\ UNCHANGED decVars

NextTwoRuns == Next \/ Rerun

SpecTwoRuns == Init /\ [][NextTwoRuns]_vars

----------------------------------------------------------------------------
(* The claims *)

\* The driver has returned and the decoder has stopped, one way or another.
DecoderStopped == dpc \in {"done", "error"}

\* C1: adaptive round trip.  For every input file S, the mirror decoder, run
\* on what the adaptive driver wrote for S, stops at the end marker having
\* written exactly S.
C1_AdaptiveRoundTrip ==
    (prog = "adaptive" /\ DecoderStopped) => (dpc = "done" /\ decoded = file)

\* C2: static round trip.  For every input file S, the mirror decoder, run on
\* what the static driver wrote for S (the code lengths, the coded bytes, the
\* coded end marker, the padding), stops at the end marker having written
\* exactly S.
C2_StaticRoundTrip ==
    (prog = "static" /\ DecoderStopped) => (dpc = "done" /\ decoded = file)

FlatPlus(symbols) == [s \in Symbols |-> 1 + Occurrences(symbols, s)]

\* C5: adaptive reset ordering.  The table has been reset exactly at the
\* multiples of the period: it always holds the flat table plus the symbols
\* encoded since the last multiple.  At a multiple of the period the last
\* rebuild used the counts of the whole period that just ended, not the
\* fresh table, and the tree in use is the tree of those counts.
C5_ResetAfterRebuild ==
    (prog = "adaptive" /\ builds # <<>>) =>
        /\ resets = {c \in 1 .. count : c % ResetPeriod = 0}
        /\ freqs = FlatPlus(SubSeq(encoded, count - (count % ResetPeriod) + 1, count))
        /\ (count > 0 /\ count % ResetPeriod = 0) =>
              /\ builds[Len(builds)] =
                     FlatPlus(SubSeq(encoded, count - ResetPeriod + 1, count))
              /\ tree = buildCodeTree(
                     FlatPlus(SubSeq(encoded, count - ResetPeriod + 1, count)))

\* The loop stands at a multiple of the period: the table is flat again and
\* the tree is not the tree of the flat table.
C5_Witness ==
    /\ prog = "adaptive" /\ pc = "loop"
    /\ count > ResetPeriod /\ count % ResetPeriod = 0
    /\ freqs = initFreqs
    /\ tree # buildCodeTree(initFreqs)

\* C6: the end marker is encoded at most once and only as the last symbol;
\* a driver that returns EXIT_SUCCESS has encoded it; and once it is
\* encoded no symbol is encoded any more and the bit stream changes only by
\* finish().
C6_EndMarkerLast ==
    /\ [](/\ Occurrences(encoded, EndMarker) <= 1
          /\ \A k \in 1 .. Len(encoded) : encoded[k] = EndMarker => k = Len(encoded)
          /\ exitCode = "EXIT_SUCCESS" =>
                 (encoded # <<>> /\ encoded[Len(encoded)] = EndMarker))
    /\ [][Occurrences(encoded, EndMarker) > 0 =>
            /\ encoded' = encoded
            /\ bout' = bout \/ (pc = "finish" /\ bout' = bitFinish(bout))]_vars

\* A driver has returned EXIT_SUCCESS after finish() padded the last byte.
C6_Witness ==
    /\ exitCode = "EXIT_SUCCESS"
    /\ encoded[Len(encoded)] = EndMarker
    /\ Len(encoded) = numberOfBytes + 1
    /\ WrittenBits(bout) # <<>>

RECURSIVE BitsValue(_)
\* The number a bit sequence denotes, most significant bit first.
BitsValue(bits) ==
    IF bits = <<>> THEN 0
    ELSE 2 * BitsValue(SubSeq(bits, 1, Len(bits) - 1)) + bits[Len(bits)]

\* The k-th header field (k from 0) of a bit sequence.
FieldOf(bits, k) == BitsValue(SubSeq(bits, k * LenBits + 1, (k + 1) * LenBits))

\* The code length of a symbol in a tree, 0 without a leaf.
CodeLen(t, symbol) == IF symbol \in LeafSymbols(t) THEN Len(getCode(t, symbol)) ELSE 0

RECURSIVE CodeBits(_, _)
\* The codewords of a sequence of symbols, concatenated.
CodeBits(t, symbols) ==
    IF symbols = <<>> THEN <<>>
    ELSE getCode(t, Head(symbols)) \o CodeBits(t, Tail(symbols))

\* C7: static header.  While the header is written no symbol has been
\* encoded, and the i fields written so far are the code lengths of the
\* symbols 0..i-1, in this order, LenBits bits each, most significant bit
\* first.  Once symbols are encoded the stream is the SymbolLimit fields
\* followed by the codewords of the encoded symbols, and every field is the
\* length of its symbol in the tree that encodes.
C7_StaticHeader ==
    prog = "static" =>
        /\ pc = "header" =>
              /\ encoded = <<>>
              /\ BitsWritten(bout) = i * LenBits
              /\ \A k \in 0 .. (i - 1) :
                     FieldOf(WrittenBits(bout), k) = CodeLen(tree, k)
        /\ pc \in {"encode", "eof", "finish"} =>
              /\ \A k \in Symbols : FieldOf(WrittenBits(bout), k) = CodeLen(tree, k)
              /\ WrittenBits(bout) =
                     SubSeq(WrittenBits(bout), 1, SymbolLimit * LenBits)
                         \o CodeBits(tree, encoded)

\* Every byte is encoded after a header that holds lengths 1 and 2 and a 0.
C7_Witness ==
    /\ prog = "static" /\ pc = "encode" /\ i = numberOfBytes
    /\ \E k \in Symbols : FieldOf(WrittenBits(bout), k) = 1
    /\ \E k \in Symbols : FieldOf(WrittenBits(bout), k) = 2
    /\ \E k \in Symbols : FieldOf(WrittenBits(bout), k) = 0

\* The static driver has thrown the domain error.
DomainErrorRaised == prog = "static" /\ stderr = <<"domain_error">>

C9_UsageError ==
    argc # 3 =>
        /\ fileOps = {}
        /\ ~outFile.exists
        /\ readable = 0 /\ bout = BitOutputStream
        /\ pc \in {"start", "exited"}
        /\ pc = "exited" => (exitCode = "EXIT_FAILURE" /\ stderr = <<"Usage">>)
        /\ dpc = "idle"

\* A driver started with too many arguments has returned.
C9_Witness == argc > 3 /\ pc = "exited" /\ exitCode = "EXIT_FAILURE"

\* C10: at least two active symbols.  Every table handed to buildCodeTree()
\* has at least 2 symbols of nonzero frequency, the end marker among them.
C10_TwoActiveSymbols ==
    \A k \in 1 .. Len(builds) :
        /\ Cardinality(Active(builds[k])) >= 2
        /\ builds[k][EndMarker] >= 1

\* The static driver has built its tree from exactly two active symbols.
C10_Witness ==
    /\ prog = "static" /\ Len(builds) = 1
    /\ Cardinality(Active(builds[1])) = 2

\* The bit sequence p is an initial part of the bit sequence q.
IsPrefix(p, q) == Len(p) <= Len(q) /\ p = SubSeq(q, 1, Len(p))

EachByteOnce == Len(file) = ByteLimit /\ \A b \in Byte : Occurrences(file, b) = 1

\* C12: scenario C.  The static driver, given an input that holds every byte
\* value exactly once, builds its code from the table in which every symbol,
\* the end marker included, has frequency 1, and every code length of the
\* header is at least 1 and at most the number of bits of a byte value.
C12_ScenarioC ==
    (prog = "static" /\ argc = 3 /\ EachByteOnce /\ pc = "exited") =>
        /\ builds = <<FrequencyTable(1)>>
        /\ \A s \in Symbols :
               /\ getCodeLength(canonCode, s) >= 1
               /\ getCodeLength(canonCode, s) <= LenBits
               /\ FieldOf(WrittenBits(bout), s) = getCodeLength(canonCode, s)

\* No codeword of the tree is an initial part of another one.
PrefixFree(t) ==
    \A l1 \in t : \A l2 \in t : l1 # l2 => ~IsPrefix(l1[2], l2[2])

\* C13: canonical length preservation.  In the static driver the tree that
\* encodes, canonCode.toCodeTree(), gives every symbol the code length it has
\* in the tree buildCodeTree() returned for the scanned table (0 for a symbol
\* without a leaf), it has a leaf for exactly the same symbols, and it is
\* prefix-free.
C13_CanonicalLengths ==
    (prog = "static" /\ builds # <<>>) =>
        /\ \A s \in Symbols : CodeLen(tree, s) = CodeLen(buildCodeTree(builds[1]), s)
        /\ \A s \in Symbols : getCodeLength(canonCode, s) = CodeLen(tree, s)
        /\ LeafSymbols(tree) = Active(builds[1])
        /\ PrefixFree(tree)

\* The canonical tree differs from the tree that was built, in a code that
\* has lengths 1, 2 and 3.
C13_Witness ==
    /\ prog = "static" /\ builds # <<>>
    /\ tree # buildCodeTree(builds[1])
    /\ {CodeLen(tree, s) : s \in Symbols} = {1, 2, 3}

\* The pairs of symbols of a table that have the same nonzero frequency, the
\* symbol of lower index first.
TiedPairs(f) ==
    {p \in Active(f) \X Active(f) : p[1] < p[2] /\ f[p[1]] = f[p[2]]}

\* C14, as stated: tie-break outcome.  In every tree buildCodeTree() has
\* returned, of two symbols with the same nonzero frequency the one with the
\* lower index has a code length less than or equal to that of the other.
C14_LowerIndexShorter ==
    \A k \in 1 .. Len(builds) :
        \A p \in TiedPairs(builds[k]) :
            CodeLen(buildCodeTree(builds[k]), p[1])
                <= CodeLen(buildCodeTree(builds[k]), p[2])

\* C14, amended: in every tree buildCodeTree() has returned, of two symbols
\* with the same nonzero frequency the one with the lower index has a code
\* length greater than or equal to that of the other, and the two lengths
\* differ by at most 1.
C14_LowerIndexLonger ==
    \A k \in 1 .. Len(builds) :
        \A p \in TiedPairs(builds[k]) :
            LET lower == CodeLen(buildCodeTree(builds[k]), p[1])
                higher == CodeLen(buildCodeTree(builds[k]), p[2])
            IN  higher <= lower /\ lower <= higher + 1

\* A tree has been built in which two symbols of the same frequency have
\* codes of different lengths.
C14_Witness ==
    \E k \in 1 .. Len(builds) :
        \E p \in TiedPairs(builds[k]) :
            CodeLen(buildCodeTree(builds[k]), p[1])
                # CodeLen(buildCodeTree(builds[k]), p[2])

\* The last count up to c at which the loop rebuilt the tree, 0 if there is
\* none.
LastRebuild(c) ==
    LET R == {0} \cup {r \in rebuilds : r <= c}
    IN  CHOOSE r \in R : \A q \in R : q <= r

\* The table the loop held at the rebuild of count r: the flat table plus the
\* symbols counted since the last reset before r, the r-th symbol included.
TableAtRebuild(r) ==
    IF r = 0 THEN initFreqs
    ELSE FlatPlus(SubSeq(encoded, r - ((r - 1) % ResetPeriod), r))

RECURSIVE BitsByLastRebuild(_)
\* The codewords of the first n encoded symbols, the k-th taken from the tree
\* of the last rebuild at or before count k - 1.
BitsByLastRebuild(n) ==
    IF n = 0 THEN <<>>
    ELSE BitsByLastRebuild(n - 1)
             \o getCode(buildCodeTree(TableAtRebuild(LastRebuild(n - 1))), encoded[n])

\* C15: adaptive per-symbol order.  The k-th symbol is encoded with the tree
\* of the last rebuild at or before count k - 1, the tree of the flat table
\* if there is none; that tree was built from counts of the symbols before
\* the k-th only.  In every loop iteration the bits appended are the code of
\* the byte in the tree held before the iteration, and count has grown by 1.
C15_EncodeBeforeUpdate ==
    /\ [](prog = "adaptive" /\ pc \in {"loop", "finish"} =>
              WrittenBits(bout) = BitsByLastRebuild(Len(encoded)))
    /\ [][prog = "adaptive" /\ pc = "loop" /\ pc' = "loop" =>
              /\ count' = count + 1
              /\ WrittenBits(bout') = WrittenBits(bout) \o getCode(tree, encoded'[count'])
              /\ freqs'[encoded'[count']] \in {1, freqs[encoded'[count']] + 1}]_vars

\* A byte has been encoded right after a rebuild that counted it, with a code
\* the rebuilt tree does not give it.
C15_Witness ==
    /\ prog = "adaptive" /\ pc = "loop" /\ count > ResetPeriod
    /\ count \in rebuilds
    /\ encHist[count].tree # tree
    /\ getCode(encHist[count].tree, encoded[count]) # getCode(tree, encoded[count])

\* C16: the end marker is counted.  Once the adaptive driver has encoded the
\* end marker, count is the number of bytes encoded plus 1, the table counts
\* the end marker as it counts every symbol encoded since the last reset,
\* and the tree has been rebuilt and the table reset if that final count
\* asks for it.
C16_EndMarkerCounted ==
    (prog = "adaptive" /\ Occurrences(encoded, EndMarker) > 0) =>
        /\ count = Len(encoded)
        /\ freqs = FlatPlus(SubSeq(encoded, count - (count % ResetPeriod) + 1, count))
        /\ freqs[EndMarker] = 2 \/ ResetDue(count)
        /\ RebuildDue(count) <=> count \in rebuilds
        /\ ResetDue(count) <=> count \in resets

\* The first n bytes of the mapped region, as the loops read them.
Scanned(n) == [k \in 1 .. n |-> data(k - 1)]

RECURSIVE SumFreqs(_, _)
\* The sum of the frequencies of the symbols below n.
SumFreqs(f, n) == IF n = 0 THEN 0 ELSE SumFreqs(f, n - 1) + f[n - 1]

\* C17: static scan result.  While the first loop runs, the table counts
\* every byte value as often as it occurs among the bytes read so far, and
\* the end marker not at all.  The table handed to buildCodeTree() counts
\* every byte value as often as it occurs among the bytes scanned, the end
\* marker exactly once, and its sum is the number of bytes scanned plus 1.
C17_ScanResult ==
    prog = "static" =>
        /\ pc = "scan" =>
              /\ \A b \in Byte : freqs[b] = Occurrences(Scanned(i), b)
              /\ freqs[EndMarker] = 0
        /\ pc = "open" =>
              /\ builds = <<freqs>>
              /\ \A b \in Byte : builds[1][b] = Occurrences(Scanned(i), b)
              /\ builds[1][EndMarker] = 1
              /\ SumFreqs(builds[1], SymbolLimit) = i + 1

\* The code has been built after a scan that went past the end of the file:
\* byte 0 is counted without occurring in the file.
C17_Witness ==
    /\ prog = "static" /\ pc = "open"
    /\ Len(file) < i
    /\ Occurrences(file, 0) = 0 /\ builds[1][0] > 0

\* A driver stands before a call of enc.write().
BeforeEncWrite == pc \in {"loop", "encode"} /\ (i >= numberOfBytes \/ i < readable)

\* The symbol of that call: the next byte, or the end marker after the loop.
NextSymbol == IF i < numberOfBytes THEN data(i) ELSE EndMarker

\* C18: no encode of a leafless symbol.  Whenever a driver is about to call
\* enc.write(s), the tree the encoder refers to has a leaf for exactly the
\* symbols of nonzero frequency in the table of the last buildCodeTree()
\* call, and s is one of them.  No driver ends on the failure of enc.write:
\* the only uncaught exception is the domain error of the static header.
C18_NoLeaflessEncode ==
    /\ BeforeEncWrite =>
          /\ builds # <<>>
          /\ LeafSymbols(tree) = Active(builds[Len(builds)])
          /\ builds[Len(builds)][NextSymbol] > 0
          /\ canEncode(tree, NextSymbol)
    /\ exitCode = "terminate" => stderr = <<"domain_error">>

\* The static driver is about to encode a byte with a tree in which some
\* other symbol has no leaf.
C18_Witness ==
    /\ prog = "static" /\ BeforeEncWrite /\ i < numberOfBytes
    /\ LeafSymbols(tree) # Symbols
    /\ Len(encoded) > 0

\* C19: adaptive frequency table.  Between the iterations of the adaptive
\* loop, and after it, every frequency is at least 1 and the frequencies sum
\* to the number of symbols plus count modulo the reset period.  No table a
\* tree was built from has a frequency, or a sum, above the number of
\* symbols plus the reset period.
C19_TableSum ==
    (prog = "adaptive" /\ builds # <<>>) =>
        /\ \A s \in Symbols : freqs[s] >= 1
        /\ SumFreqs(freqs, SymbolLimit) = SymbolLimit + (count % ResetPeriod)
        /\ \A k \in 1 .. Len(builds) :
               /\ \A s \in Symbols : builds[k][s] >= 1
               /\ \A s \in Symbols : builds[k][s] <= SymbolLimit + ResetPeriod
               /\ SumFreqs(builds[k], SymbolLimit) <= SymbolLimit + ResetPeriod

\* The loop stands between two resets, after a rebuild from a table of the
\* largest sum.
C19_Witness ==
    /\ prog = "adaptive" /\ pc = "loop"
    /\ count > ResetPeriod /\ count % ResetPeriod # 0
    /\ \E k \in 1 .. Len(builds) :
           SumFreqs(builds[k], SymbolLimit) = SymbolLimit + ResetPeriod

\* A driver stands in one of its per-byte loops.
InByteLoop == pc \in {"scan", "loop", "encode"}

\* C20: loop exits are unreachable.  Every value a per-byte loop reads is a
\* byte value, so the break on EOF is never taken and no driver ends on the
\* assertion error; a driver that goes on after a per-byte loop has left it
\* with i at the loop bound.  Hence the static code is built from a scan of
\* exactly numberOfBytes bytes, and an encoded end marker is preceded by
\* exactly numberOfBytes encoded bytes, whatever the length of the input.
C20_LoopExitsUnreachable ==
    /\ [](/\ pc \notin {"eof", "build"}
          /\ exitCode = "terminate" => DomainErrorRaised
          /\ (InByteLoop /\ i < numberOfBytes /\ i < readable) => data(i) \in Byte
          /\ (prog = "static" /\ builds # <<>>) =>
                 SumFreqs(builds[1], SymbolLimit) = numberOfBytes + 1
          /\ Occurrences(encoded, EndMarker) > 0 => Len(encoded) = numberOfBytes + 1)
    /\ [][(InByteLoop /\ pc' # pc /\ exitCode' = "running") => i = numberOfBytes]_vars

\* A driver has encoded the end marker after numberOfBytes bytes on an input
\* that is shorter than that.
C20_Witness ==
    /\ Len(file) < numberOfBytes
    /\ Len(encoded) = numberOfBytes + 1
    /\ encoded[Len(encoded)] = EndMarker
    /\ exitCode = "running"

====
